---- MODULE Spec2Model ----
(***************************************************************************)
(* RentEase: the cascading removal of a user (handleRemoveUser) over the   *)
(* Firestore collections users, flats and messages.                        *)
(*                                                                         *)
(* The store is three sets of documents.  A deleteDoc call is in flight    *)
(* from the moment it is issued until it settles; it settles either by     *)
(* removing the document (removing a missing document is a success too) or *)
(* by a store error that leaves the document in place.  Promise.all        *)
(* resumes the handler when every call of the batch has settled, and       *)
(* rejects at the first call that fails, while the other calls of the      *)
(* batch stay in flight and settle later on their own.                     *)
(***************************************************************************)
EXTENDS Integers, Sequences, FiniteSets, TLC

\* ---------------------------------------------------------------- bounds

\* How many times handleRemoveUser is called, one call after the other.
MaxRuns == 2
\* How many awaited store operations (queries, deletes) end in a store error.
MaxFaults == 1

\* How many messages the store holds when two calls overlap.
MaxConcMsgs == 2

\* How many messages other clients create while the handler runs.
MaxCreated == 1

\* How many flat ids the favoriteFlats fields hold in all.
MaxFavorites == 2

\* How many flats newFlatAction creates.
MaxNewFlats == 1

\* The flats the store holds when flats are edited (the route may name any
\* flat id of FlatIds).
EditFlatIds == {"f1", "f2"}

\* The values a submitted flat form takes (its listing fields as one value),
\* and the clock values of Date.now() during and after the initial store.
FormValues == {2, 3}
Now == 2

\* The identifiers of the example of spec section 8.6.
UserIds == {"u1", "u2"}
FlatOrd == <<"f1", "f2", "f3">>
MsgOrd == <<"m1", "m2", "m3">>
FlatIds == {FlatOrd[i] : i \in 1..Len(FlatOrd)}
MsgIds == {MsgOrd[i] : i \in 1..Len(MsgOrd)}

\* The callers of handleRemoveUser (browser sessions of administrators).
Procs == {"a", "b"}

\* The ids the store assigns to the user documents registerAction adds, and
\* the ids of all user documents.
RegOrd == <<"r1", "r2">>
RegIds == {RegOrd[i] : i \in 1..Len(RegOrd)}
AllUserIds == UserIds \cup RegIds

\* The email addresses of the registration form, and the address of each
\* user of the initial store.
Emails == {"e1", "e2"}
EmailOf(u) == IF u = "u1" THEN "e1" ELSE "e2"

\* No route action has run in the session.
NoRoute == [at |-> "none", email |-> "none", flatID |-> "none", form |-> 0,
            image |-> 0, valid |-> FALSE, out |-> "none"]

VARIABLES
    users,       \* store: ids of the documents of collection 'users'
    flats,       \* store: documents of 'flats', [id, ownerID]
    messages,    \* store: documents of 'messages', [id, senderId, flatID]
    localUsers,  \* the users list held in React state (setUsers)
    pc,          \* per caller: the await the handler is suspended at
    userId,      \* per caller: the argument userId
    flatsSnap,   \* per caller: flatsSnap.docs, the flats found by the query
    flatsLeft,   \* per caller: the flat ids the for loop has not visited yet
    pending,     \* per caller: deleteDoc calls of the awaited batch in flight
    stragglers,  \* deleteDoc calls still in flight of a batch that rejected
    calls,       \* per caller: the batches of deleteDoc calls issued, in order
    start,       \* per caller: the store when the current call started
    fault,       \* per caller: what failed in the current call
    log,         \* the calls that returned, in order: [uid, ok, start]
    runs,        \* number of calls made
    faults,      \* number of store errors the handler has seen so far
    store0,      \* the store of the initial state
    created,     \* messages other clients created: [id, late]; late says the
                 \* message was created during a call, after the queries of
                 \* that call that match it
    userData,    \* store: per user id, the fields [email, favoriteFlats] of
                 \* the user document
    flatData,    \* store: per flat id, the fields [listing, image, createdAt]
                 \* of the flat document
    newFlats,    \* flats newFlatAction created: [id, late]; late says the flat
                 \* was created for the user a call removes, after the flats
                 \* query of that call
    route        \* per session: the route action in progress and the value
                 \* it returned last (actionData)

vars == <<users, flats, messages, userData, flatData, localUsers, pc, userId,
          flatsSnap, flatsLeft, pending, stragglers, calls, start, fault, log,
          runs, faults, store0, created, newFlats, route>>

\* ---------------------------------------------------------------- store

Store == [users |-> users, flats |-> flats, messages |-> messages]

\* doc(db, coll, id): a document reference.
Doc(coll, id) == [coll |-> coll, id |-> id]

FlatIdsOf(fs) == {f.id : f \in fs}
MsgIdsOf(ms) == {m.id : m \in ms}

\* The variant that filters on a field no message has ('senderID').
MessagesBySenderWrongField(uid) == {m \in messages : FALSE}

\* query(messagesRef, where('senderId', '==', uid)) evaluated on the store.
MessagesBySender(uid) == {m \in messages : m.senderId = uid}

\* The variant that filters on a field no flat has ('ownerId').
FlatsByOwnerWrongField(uid) == {f \in flats : FALSE}

\* query(flatsRef, where('ownerID', '==', uid)) evaluated on the store.
FlatsByOwner(uid) == {f \in flats : f.ownerID = uid}

\* The variant that filters on a field no message has ('flatId').
MessagesByFlatWrongField(p, flatId) == {m \in messages : FALSE}

\* The variant that reads the messages of the store as it was when the call
\* started (all queries resolved up front).
MessagesByFlatAtStart(p, flatId) == {m \in start[p].messages : m.flatID = flatId}

\* The variant without the where clause: every message is returned.
MessagesByFlatNoFilter(p, flatId) == messages

\* query(messagesRef, where('flatID', '==', flatId)) evaluated on the store.
MessagesByFlat(p, flatId) == {m \in messages : m.flatID = flatId}

\* The variant in which deleting a missing document is an error.
DeleteSucceedsIfPresent(d) ==
    CASE d.coll = "users" -> d.id \in users
      [] d.coll = "flats" -> d.id \in FlatIdsOf(flats)
      [] OTHER -> d.id \in MsgIdsOf(messages)

\* deleteDoc resolves whether or not the document exists; the handler never
\* tests for existence.
DeleteSucceeds(d) == TRUE

\* The fields of a user document and of a flat document that is not stored.
NoUserData == [email |-> "none", favoriteFlats |-> {}]
NoFlatData == [listing |-> 0, image |-> 0, createdAt |-> 0]

\* The variant of ApplyDelete in which the deletion of a flat also takes the
\* flat's id out of every favoriteFlats field.
ApplyDeleteCleansFavorites(d) ==
    /\ users' = IF d.coll = "users" THEN users \ {d.id} ELSE users
    /\ flats' = IF d.coll = "flats" THEN {f \in flats : f.id # d.id} ELSE flats
    /\ messages' = IF d.coll = "messages"
                   THEN {m \in messages : m.id # d.id} ELSE messages
    /\ userData' = IF d.coll = "users"
                   THEN [userData EXCEPT ![d.id] = NoUserData]
                   ELSE IF d.coll = "flats"
                   THEN [u \in AllUserIds |->
                           [userData[u] EXCEPT !.favoriteFlats = @ \ {d.id}]]
                   ELSE userData
    /\ flatData' = IF d.coll = "flats"
                   THEN [flatData EXCEPT ![d.id] = NoFlatData] ELSE flatData

\* The effect of a deleteDoc that the store carries out.
ApplyDelete(d) ==
    /\ users' = IF d.coll = "users" THEN users \ {d.id} ELSE users
    /\ flats' = IF d.coll = "flats" THEN {f \in flats : f.id # d.id} ELSE flats
    /\ messages' = IF d.coll = "messages"
                   THEN {m \in messages : m.id # d.id} ELSE messages
    /\ userData' = IF d.coll = "users"
                   THEN [userData EXCEPT ![d.id] = NoUserData] ELSE userData
    /\ flatData' = IF d.coll = "flats"
                   THEN [flatData EXCEPT ![d.id] = NoFlatData] ELSE flatData

StoreUnchanged == UNCHANGED <<users, flats, messages, userData, flatData>>

\* ---------------------------------------------------------------- Init

\* The initial store is referentially intact: the owner of every flat and
\* the sender and the flat of every message are documents of the store (a
\* flat is created with the id of the logged-in user as ownerID).  Ids are
\* opaque, so one store stands for all its renamings: the flats and messages
\* present are the first ones of FlatOrd and MsgOrd, the flats are numbered
\* by owner and the messages by MsgKey, latest first.
UserRank(u) == IF u = "u1" THEN 0 ELSE 1
MsgKey(s, i) == 2 * i + UserRank(s)

Init ==
    \E U \in SUBSET UserIds, nf \in 0..Len(FlatOrd), nm \in 0..Len(MsgOrd) :
      \E owner \in [1..nf -> U], snd \in [1..nm -> U], on \in [1..nm -> 1..nf] :
        /\ \A i, j \in 1..nf : i < j => UserRank(owner[i]) <= UserRank(owner[j])
        /\ \A i, j \in 1..nm : i < j => MsgKey(snd[i], on[i]) >= MsgKey(snd[j], on[j])
        /\ users = U
        /\ flats = {[id |-> FlatOrd[i], ownerID |-> owner[i]] : i \in 1..nf}
        /\ messages = {[id |-> MsgOrd[i], senderId |-> snd[i],
                        flatID |-> FlatOrd[on[i]]] : i \in 1..nm}
        /\ localUsers = U
        /\ store0 = [users |-> users, flats |-> flats, messages |-> messages]
        /\ pc = [p \in Procs |-> "idle"]
        /\ userId = [p \in Procs |-> "u1"]
        /\ flatsSnap = [p \in Procs |-> {}]
        /\ flatsLeft = [p \in Procs |-> {}]
        /\ pending = [p \in Procs |-> {}]
        /\ stragglers = {}
        /\ calls = [p \in Procs |-> <<>>]
        /\ start = [p \in Procs |-> store0]
        /\ fault = [p \in Procs |-> "none"]
        /\ log = <<>>
        /\ runs = 0
        /\ faults = 0
        /\ created = {}
        /\ userData = [u \in AllUserIds |->
                          IF u \in U
                          THEN [email |-> EmailOf(u), favoriteFlats |-> {}]
                          ELSE NoUserData]
        /\ flatData = [f \in FlatIds |->
                          IF f \in {FlatOrd[i] : i \in 1..nf}
                          THEN [listing |-> 1, image |-> 1, createdAt |-> 1]
                          ELSE NoFlatData]
        /\ newFlats = {}
        /\ route = [p \in Procs |-> NoRoute]

\* ---------------------------------------------------------------- handler

Returned(p) == pc[p] \in {"done", "failed"}

\* The variant of the catch block that drops the user from the list anyway.
CatchDropsUser(p, kind, left) ==
    /\ pc' = [pc EXCEPT ![p] = "failed"]
    /\ fault' = [fault EXCEPT ![p] = kind]
    /\ stragglers' = stragglers \cup left
    /\ pending' = [pending EXCEPT ![p] = {}]
    /\ localUsers' = localUsers \ {userId[p]}

\* The variant of the catch block that throws the error on to the caller: the
\* promise of the call rejects.
CatchRethrows(p, kind, left) ==
    /\ localUsers' = localUsers
    /\ pc' = [pc EXCEPT ![p] = "rejected"]
    /\ fault' = [fault EXCEPT ![p] = kind]
    /\ stragglers' = stragglers \cup left
    /\ pending' = [pending EXCEPT ![p] = {}]

\* The catch block (lines 37-41): the error is logged and alerted, the users
\* list is not touched and the handler ends; the calls of the batch that have
\* not settled stay in flight.
Catch(p, kind, left) ==
    /\ localUsers' = localUsers
    /\ pc' = [pc EXCEPT ![p] = "failed"]
    /\ fault' = [fault EXCEPT ![p] = kind]
    /\ stragglers' = stragglers \cup left
    /\ pending' = [pending EXCEPT ![p] = {}]

\* Issue one batch of deleteDoc calls and suspend at `at`.
Issue(p, batch, at) ==
    /\ pending' = [pending EXCEPT ![p] = batch]
    /\ calls' = [calls EXCEPT ![p] = Append(@, batch)]
    /\ pc' = [pc EXCEPT ![p] = at]

\* handleRemoveUser(u, setUsers) is called: line 8 issues the deletion of the
\* user document.  A caller whose call has returned calls again for the same
\* user (a second click on the user's remove button, or a retry).
Call(p, u) ==
    /\ pc[p] = "idle" \/ (Returned(p) /\ u = userId[p])
    /\ runs < MaxRuns
    /\ runs' = runs + 1
    /\ log' = IF Returned(p)
              THEN Append(log, [uid |-> userId[p], ok |-> pc[p] = "done",
                                start |-> start[p]])
              ELSE log
    /\ userId' = [userId EXCEPT ![p] = u]
    /\ start' = [start EXCEPT ![p] = Store]
    /\ fault' = [fault EXCEPT ![p] = "none"]
    /\ flatsSnap' = [flatsSnap EXCEPT ![p] = {}]
    /\ flatsLeft' = [flatsLeft EXCEPT ![p] = {}]
    /\ pending' = [pending EXCEPT ![p] = {Doc("users", u)}]
    /\ calls' = [calls EXCEPT ![p] = <<{Doc("users", u)}>>]
    /\ pc' = [pc EXCEPT ![p] = "awaitUserDelete"]
    /\ StoreUnchanged
    /\ UNCHANGED <<localUsers, stragglers, faults, store0, created,
                   newFlats, route>>

\* The variant in which the store gives up the rest of a batch once one of its
\* deletions completes: which documents go depends on which came first.
DeleteSettlesFirstWins(p, d) ==
    /\ d \in pending[p]
    /\ DeleteSucceeds(d)
    /\ ApplyDelete(d)
    /\ pending' = [pending EXCEPT ![p] = {}]
    /\ UNCHANGED <<localUsers, pc, userId, flatsSnap, flatsLeft, stragglers,
                   calls, start, fault, log, runs, faults, store0, created,
                   newFlats, route>>

\* A deleteDoc of the awaited batch settles successfully.
DeleteSettles(p, d) ==
    /\ d \in pending[p]
    /\ DeleteSucceeds(d)
    /\ ApplyDelete(d)
    /\ pending' = [pending EXCEPT ![p] = @ \ {d}]
    /\ UNCHANGED <<localUsers, pc, userId, flatsSnap, flatsLeft, stragglers,
                   calls, start, fault, log, runs, faults, store0, created,
                   newFlats, route>>

\* A deleteDoc of the awaited batch fails: the await (Promise.all) rejects
\* and the catch block runs.
DeleteFails(p, d) ==
    /\ d \in pending[p]
    /\ \/ /\ faults < MaxFaults
          /\ faults' = faults + 1
       \/ /\ ~DeleteSucceeds(d)
          /\ faults' = faults
    /\ Catch(p, "delete", pending[p] \ {d})
    /\ StoreUnchanged
    /\ UNCHANGED <<userId, flatsSnap, flatsLeft, calls, start, log,
                   runs, store0, created,
                   newFlats, route>>

\* A deleteDoc left in flight by a rejected batch settles successfully.
StragglerSettles(d) ==
    /\ d \in stragglers
    /\ DeleteSucceeds(d)
    /\ ApplyDelete(d)
    /\ stragglers' = stragglers \ {d}
    /\ UNCHANGED <<localUsers, pc, userId, flatsSnap, flatsLeft, pending,
                   calls, start, fault, log, runs, faults, store0, created,
                   newFlats, route>>

\* A deleteDoc left in flight by a rejected batch fails; nobody awaits it, and
\* the error goes unobserved.
StragglerFails(d) ==
    /\ d \in stragglers
    /\ stragglers' = stragglers \ {d}
    /\ StoreUnchanged
    /\ UNCHANGED <<localUsers, pc, userId, flatsSnap, flatsLeft, pending,
                   calls, start, fault, log, runs, faults, store0, created,
                   newFlats, route>>

\* Lines 11-15: the messages sent by the user are fetched and a deleteDoc is
\* issued for each.
GetSentMessages(p) ==
    /\ pc[p] = "awaitUserDelete"
    /\ pending[p] = {}
    /\ Issue(p, {Doc("messages", m.id) : m \in MessagesBySender(userId[p])},
             "awaitSentDeletes")
    /\ StoreUnchanged
    /\ UNCHANGED <<localUsers, userId, flatsSnap, flatsLeft, stragglers, start,
                   fault, log, runs, faults, store0, created,
                   newFlats, route>>

\* Lines 18-23: the flats owned by the user are fetched.
GetFlats(p) ==
    /\ pc[p] = "awaitSentDeletes"
    /\ pending[p] = {}
    /\ flatsSnap' = [flatsSnap EXCEPT ![p] = FlatsByOwner(userId[p])]
    /\ flatsLeft' = [flatsLeft EXCEPT ![p] = FlatIdsOf(FlatsByOwner(userId[p]))]
    /\ pc' = [pc EXCEPT ![p] = "flatLoop"]
    /\ StoreUnchanged
    /\ UNCHANGED <<localUsers, userId, pending, stragglers, calls, start, fault,
                   log, runs, faults, store0, created,
                   newFlats, route>>

\* The position of a flat id in the store's order of document ids.
FlatIndex(flatId) == CHOOSE i \in 1..Len(FlatOrd) : FlatOrd[i] = flatId

\* flatsSnap.docs is in the store's order (by document id): the loop visits
\* the first flat id it has not visited yet.
NextFlat(p) ==
    CHOOSE f \in flatsLeft[p] : \A g \in flatsLeft[p] : FlatIndex(f) <= FlatIndex(g)

\* Lines 24-28, one iteration: the messages of the next flat are fetched and
\* a deleteDoc is issued for each.
GetFlatMessages(p) ==
    /\ pc[p] = "flatLoop"
    /\ pending[p] = {}
    /\ flatsLeft[p] # {}
    /\ flatsLeft' = [flatsLeft EXCEPT ![p] = @ \ {NextFlat(p)}]
    /\ Issue(p, {Doc("messages", m.id) : m \in MessagesByFlat(p, NextFlat(p))},
             "flatLoop")
    /\ StoreUnchanged
    /\ UNCHANGED <<localUsers, userId, flatsSnap, stragglers, start, fault, log,
                   runs, faults, store0, created,
                   newFlats, route>>

\* The variant of lines 24-33 in which the deletes of the loop are not
\* awaited (the loop body run by forEach with an async callback): the flats
\* are deleted as soon as the flats are known.
DeleteFlatsUnawaited(p) ==
    /\ pc[p] = "flatLoop"
    /\ pending' = [pending EXCEPT ![p] =
                      @ \cup {Doc("flats", f.id) : f \in flatsSnap[p]}]
    /\ calls' = [calls EXCEPT ![p] =
                      Append(@, {Doc("flats", f.id) : f \in flatsSnap[p]})]
    /\ flatsLeft' = [flatsLeft EXCEPT ![p] = {}]
    /\ pc' = [pc EXCEPT ![p] = "awaitFlatDeletes"]
    /\ StoreUnchanged
    /\ UNCHANGED <<localUsers, userId, flatsSnap, stragglers, start,
                   fault, log, runs, faults, store0, created,
                   newFlats, route>>

\* Lines 32-33: after the loop a deleteDoc is issued for each flat found.
DeleteFlats(p) ==
    /\ pc[p] = "flatLoop"
    /\ pending[p] = {}
    /\ flatsLeft[p] = {}
    /\ Issue(p, {Doc("flats", f.id) : f \in flatsSnap[p]}, "awaitFlatDeletes")
    /\ StoreUnchanged
    /\ UNCHANGED <<localUsers, userId, flatsSnap, flatsLeft, stragglers, start,
                   fault, log, runs, faults, store0, created,
                   newFlats, route>>

\* Line 36: the user is filtered out of the users list of the page.
SetUsers(p) ==
    /\ pc[p] = "awaitFlatDeletes"
    /\ pending[p] = {}
    /\ localUsers' = localUsers \ {userId[p]}
    /\ pc' = [pc EXCEPT ![p] = "done"]
    /\ StoreUnchanged
    /\ UNCHANGED <<userId, flatsSnap, flatsLeft, pending, stragglers, calls,
                   start, fault, log, runs, faults, store0, created,
                   newFlats, route>>

\* A getDocs (line 13, 20 or 26) fails: the catch block runs.
AtQuery(p) ==
    /\ pending[p] = {}
    /\ \/ pc[p] \in {"awaitUserDelete", "awaitSentDeletes"}
       \/ pc[p] = "flatLoop" /\ flatsLeft[p] # {}

QueryFails(p) ==
    /\ AtQuery(p)
    /\ faults < MaxFaults
    /\ faults' = faults + 1
    /\ Catch(p, "query", {})
    /\ StoreUnchanged
    /\ UNCHANGED <<userId, flatsSnap, flatsLeft, calls, start, log,
                   runs, store0, created,
                   newFlats, route>>

\* ---------------------------------------------------------------- Spec

\* One administrator session calling handleRemoveUser, one call after the
\* other; nobody else writes to the store.
Admin == "a"

Next ==
    \/ \E u \in UserIds : Call(Admin, u)
    \/ \E d \in pending[Admin] : DeleteSettles(Admin, d)
    \/ \E d \in pending[Admin] : DeleteFails(Admin, d)
    \/ \E d \in stragglers : StragglerSettles(d)
    \/ \E d \in stragglers : StragglerFails(d)
    \/ GetSentMessages(Admin)
    \/ GetFlats(Admin)
    \/ GetFlatMessages(Admin)
    \/ DeleteFlats(Admin)
    \/ SetUsers(Admin)
    \/ QueryFails(Admin)

Spec == Init /\ [][Next]_vars

\* The steps of a call of p that is under way: a deleteDoc of the awaited
\* batch settles, or a getDocs settles and the handler runs on to its next
\* await.
Progress(p) ==
    \/ \E d \in pending[p] : DeleteSettles(p, d)
    \/ \E d \in pending[p] : DeleteFails(p, d)
    \/ GetSentMessages(p)
    \/ GetFlats(p)
    \/ GetFlatMessages(p)
    \/ DeleteFlats(p)
    \/ SetUsers(p)
    \/ QueryFails(p)

\* The first call of a caller.
CallOnce(p, u) == pc[p] = "idle" /\ Call(p, u)

\* One call of handleRemoveUser by one administrator session.
NextOneCall ==
    \/ \E u \in UserIds : CallOnce(Admin, u)
    \/ \E d \in pending[Admin] : DeleteSettles(Admin, d)
    \/ \E d \in pending[Admin] : DeleteFails(Admin, d)
    \/ \E d \in stragglers : StragglerSettles(d)
    \/ \E d \in stragglers : StragglerFails(d)
    \/ GetSentMessages(Admin)
    \/ GetFlats(Admin)
    \/ GetFlatMessages(Admin)
    \/ DeleteFlats(Admin)
    \/ SetUsers(Admin)
    \/ QueryFails(Admin)

\* One call, with every store operation the call awaits settling in the end
\* (by success or by error) and the event loop then resuming the handler.
LiveSpec == Init /\ [][NextOneCall]_vars /\ WF_vars(Progress(Admin))

\* The steps of a call of p in which no store operation fails.
StepOk(p) ==
    \/ \E d \in pending[p] : DeleteSettles(p, d)
    \/ GetSentMessages(p)
    \/ GetFlats(p)
    \/ GetFlatMessages(p)
    \/ DeleteFlats(p)
    \/ SetUsers(p)

\* Two administrator sessions, each calling handleRemoveUser once, for the
\* same user or for different users; the calls overlap in every possible way
\* and no store operation fails.  The sessions are interchangeable: Admin is
\* the one that calls first.
Other == "b"

NextConc ==
    \/ \E u \in UserIds : CallOnce(Admin, u)
    \/ \E u \in UserIds : pc[Admin] # "idle" /\ CallOnce(Other, u)
    \/ \E p \in Procs : \E d \in pending[p] : DeleteSettles(p, d)
    \/ \E p \in Procs : GetSentMessages(p)
    \/ \E p \in Procs : GetFlats(p)
    \/ \E p \in Procs : GetFlatMessages(p)
    \/ \E p \in Procs : DeleteFlats(p)
    \/ \E p \in Procs : SetUsers(p)

\* The overlapping calls start from a store of at most MaxConcMsgs messages.
InitConc == Init /\ Cardinality(messages) <= MaxConcMsgs

ConcSpec == InitConc /\ [][NextConc]_vars

\* ---------------------------------------------------------------- other clients

\* The position of a message id in the store's order of document ids.
MsgIndex(msgId) == CHOOSE i \in 1..Len(MsgOrd) : MsgOrd[i] = msgId

\* The document id the store assigns to the next message created.
FreshMsgIds == MsgIds \ (MsgIdsOf(store0.messages) \cup {c.id : c \in created})
NewMsgId == CHOOSE i \in FreshMsgIds :
                \A j \in FreshMsgIds : MsgIndex(i) <= MsgIndex(j)

\* The flats the user of p's call owned when the call started.
OwnedFlatsAt(p) == {f \in start[p].flats : f.ownerID = userId[p]}

\* The queries of p's call that match a message from s on flat f have all
\* run, and the call has not returned: line 13 if s is the user being
\* removed, line 26 for f if f is one of the user's flats.
Late(p, s, f) ==
    /\ pc[p] \in {"awaitUserDelete", "awaitSentDeletes", "flatLoop", "awaitFlatDeletes"}
    /\ s = userId[p] \/ f \in FlatIdsOf(OwnedFlatsAt(p))
    /\ s = userId[p] => pc[p] \in {"awaitSentDeletes", "flatLoop", "awaitFlatDeletes"}
    /\ f \in FlatIdsOf(OwnedFlatsAt(p)) =>
           /\ pc[p] \in {"flatLoop", "awaitFlatDeletes"}
           /\ f \notin flatsLeft[p]

\* Another client (a session that loaded the flats and users before the
\* removal) sends a message on flat f as user s: a document [id, senderId,
\* flatID] is added to 'messages'.  The store checks no reference.
AddMessage(s, f) ==
    /\ Cardinality(created) < MaxCreated
    /\ FreshMsgIds # {}
    /\ s \in store0.users
    /\ f \in FlatIdsOf(store0.flats)
    /\ messages' = messages \cup {[id |-> NewMsgId, senderId |-> s, flatID |-> f]}
    /\ created' = created \cup {[id |-> NewMsgId, late |-> Late(Admin, s, f)]}
    /\ UNCHANGED <<users, flats, userData, flatData, localUsers, pc, userId,
                   flatsSnap, flatsLeft, pending, stragglers, calls, start,
                   fault, log, runs, faults, store0, newFlats, route>>

\* One call of handleRemoveUser with no store error, while another client
\* sends messages.
NextRace ==
    \/ \E u \in UserIds : CallOnce(Admin, u)
    \/ \E d \in pending[Admin] : DeleteSettles(Admin, d)
    \/ GetSentMessages(Admin)
    \/ GetFlats(Admin)
    \/ GetFlatMessages(Admin)
    \/ DeleteFlats(Admin)
    \/ SetUsers(Admin)
    \/ \E s \in UserIds, f \in FlatIds : AddMessage(s, f)

RaceSpec == Init /\ [][NextRace]_vars

\* The number of flat ids in the favoriteFlats fields of all users.
RECURSIVE FavoriteCount(_)
FavoriteCount(us) ==
    IF us = {} THEN 0
    ELSE LET u == CHOOSE x \in us : TRUE
         IN Cardinality(userData[u].favoriteFlats) + FavoriteCount(us \ {u})

\* A user marks a flat as a favorite: the flat's id is added to the
\* favoriteFlats field of the user's document.
AddFavorite(u, f) ==
    /\ FavoriteCount(AllUserIds) < MaxFavorites
    /\ u \in users
    /\ f \in FlatIdsOf(flats)
    /\ f \notin userData[u].favoriteFlats
    /\ userData' = [userData EXCEPT ![u].favoriteFlats = @ \cup {f}]
    /\ UNCHANGED <<users, flats, messages, flatData, localUsers, pc, userId,
                   flatsSnap, flatsLeft, pending, stragglers, calls, start,
                   fault, log, runs, faults, store0, created, newFlats, route>>

\* One call of handleRemoveUser with no store error, while users mark flats
\* as favorites.
NextFav ==
    \/ \E u \in UserIds : CallOnce(Admin, u)
    \/ \E d \in pending[Admin] : DeleteSettles(Admin, d)
    \/ GetSentMessages(Admin)
    \/ GetFlats(Admin)
    \/ GetFlatMessages(Admin)
    \/ DeleteFlats(Admin)
    \/ SetUsers(Admin)
    \/ \E u \in UserIds, f \in FlatIds : AddFavorite(u, f)

FavSpec == Init /\ [][NextFav]_vars

\* ---------------------------------------------------------------- newFlatAction

\* The document id the store assigns to the next flat created.
FreshFlatIds == FlatIds \ (FlatIdsOf(store0.flats) \cup {c.id : c \in newFlats})
NewFlatId == CHOOSE f \in FreshFlatIds :
                 \A g \in FreshFlatIds : FlatIndex(f) <= FlatIndex(g)

\* The flats query of the removal of user s (line 20 of handleRemoveUser) has
\* run, or the removal is over.
LateFlat(s) ==
    /\ s = userId[Admin]
    /\ pc[Admin] \in {"flatLoop", "awaitFlatDeletes", "done"}

\* The value the route action of session p returns.
Return(p, out) == route' = [route EXCEPT ![p] = [NoRoute EXCEPT !.out = out]]

\* The variant of newFlatAction that adds the flat only if the document of
\* the session's user is stored.
NewFlatActionChecksUser(p, s, form, valid) ==
    /\ Cardinality(newFlats) < MaxNewFlats
    /\ FreshFlatIds # {}
    /\ s \in store0.users
    /\ s \in users
    /\ IF valid
       THEN /\ flats' = flats \cup {[id |-> NewFlatId, ownerID |-> s]}
            /\ flatData' = [flatData EXCEPT ![NewFlatId] =
                               [listing |-> form, image |-> form, createdAt |-> Now]]
            /\ newFlats' = newFlats \cup {[id |-> NewFlatId, late |-> LateFlat(s)]}
            /\ Return(p, "success")
       ELSE /\ Return(p, "errors")
            /\ UNCHANGED <<flats, flatData, newFlats>>
    /\ UNCHANGED <<users, messages, userData, localUsers, pc, userId,
                   flatsSnap, flatsLeft, pending, stragglers, calls, start,
                   fault, log, runs, faults, store0, created>>

\* newFlatAction in a session whose localStorage holds user s (stored at
\* login): a form with validation errors returns them (lines 74-76); otherwise
\* the flat is added with ownerID s, the form's fields and createdAt
\* Date.now() (lines 79-100), and success is returned.
NewFlatAction(p, s, form, valid) ==
    /\ Cardinality(newFlats) < MaxNewFlats
    /\ FreshFlatIds # {}
    /\ s \in store0.users
    /\ IF valid
       THEN /\ flats' = flats \cup {[id |-> NewFlatId, ownerID |-> s]}
            /\ flatData' = [flatData EXCEPT ![NewFlatId] =
                               [listing |-> form, image |-> form, createdAt |-> Now]]
            /\ newFlats' = newFlats \cup {[id |-> NewFlatId, late |-> LateFlat(s)]}
            /\ Return(p, "success")
       ELSE /\ Return(p, "errors")
            /\ UNCHANGED <<flats, flatData, newFlats>>
    /\ UNCHANGED <<users, messages, userData, localUsers, pc, userId,
                   flatsSnap, flatsLeft, pending, stragglers, calls, start,
                   fault, log, runs, faults, store0, created>>

\* The addDoc of newFlatAction fails: the catch block returns the general
\* error (lines 104-106).
NewFlatFails(p) ==
    /\ Cardinality(newFlats) < MaxNewFlats
    /\ faults < MaxFaults
    /\ faults' = faults + 1
    /\ Return(p, "general")
    /\ UNCHANGED <<users, flats, messages, userData, flatData, localUsers, pc,
                   userId, flatsSnap, flatsLeft, pending, stragglers, calls,
                   start, fault, log, runs, store0, created, newFlats>>

\* One call of handleRemoveUser with no store error, while another session
\* adds flats.
NextFlatRace ==
    \/ \E u \in UserIds : CallOnce(Admin, u)
    \/ \E d \in pending[Admin] : DeleteSettles(Admin, d)
    \/ GetSentMessages(Admin)
    \/ GetFlats(Admin)
    \/ GetFlatMessages(Admin)
    \/ DeleteFlats(Admin)
    \/ SetUsers(Admin)
    \/ \E s \in UserIds, form \in FormValues, valid \in BOOLEAN :
          NewFlatAction(Other, s, form, valid)
    \/ NewFlatFails(Other)

FlatSpec == Init /\ [][NextFlatRace]_vars

\* ---------------------------------------------------------------- registerAction

\* The position of a user id in the store's order of document ids.
RegIndex(u) == CHOOSE i \in 1..Len(RegOrd) : RegOrd[i] = u

\* The document id the store assigns to the next user document added.
FreshRegIds == {u \in RegIds : u \notin users /\ userData[u] = NoUserData}
NewRegId == CHOOSE u \in FreshRegIds :
                \A v \in FreshRegIds : RegIndex(u) <= RegIndex(v)

\* query(collection(db, 'users'), where('email', '==', email)) evaluated on
\* the store.
UsersByEmail(e) == {u \in users : userData[u].email = e}

\* What the route actions of registration and flat editing leave alone.
AppUnchanged ==
    UNCHANGED <<flats, messages, flatData, localUsers, pc, userId, flatsSnap,
                flatsLeft, pending, stragglers, calls, start, fault, log, runs,
                store0, created, newFlats>>

\* registerAction is called with a form whose email is e: a form with
\* validation errors returns them (lines 39-41); otherwise the email query
\* is sent (line 46).
RegisterAction(p, e, valid) ==
    /\ route[p].at = "none"
    /\ IF valid
       THEN route' = [route EXCEPT ![p] = [NoRoute EXCEPT !.at = "regQuery",
                                                          !.email = e]]
       ELSE Return(p, "errors")
    /\ UNCHANGED <<users, userData, faults>>
    /\ AppUnchanged

\* Lines 46-50: the email query resolves; if a user has the email the email
\* error is returned, otherwise addDoc is called (line 54).
RegisterQuery(p) ==
    /\ route[p].at = "regQuery"
    /\ IF UsersByEmail(route[p].email) # {}
       THEN Return(p, "emailError")
       ELSE route' = [route EXCEPT ![p].at = "regAdd"]
    /\ UNCHANGED <<users, userData, faults>>
    /\ AppUnchanged

\* Lines 54-65: addDoc resolves: a user document with the email and an empty
\* favoriteFlats is stored under a new id, and success is returned.
RegisterAdd(p) ==
    /\ route[p].at = "regAdd"
    /\ FreshRegIds # {}
    /\ users' = users \cup {NewRegId}
    /\ userData' = [userData EXCEPT ![NewRegId] =
                       [email |-> route[p].email, favoriteFlats |-> {}]]
    /\ Return(p, "success")
    /\ UNCHANGED faults
    /\ AppUnchanged

\* The getDocs or the addDoc of registerAction fails: the catch block
\* returns the general error (lines 66-68).
RegisterFails(p) ==
    /\ route[p].at \in {"regQuery", "regAdd"}
    /\ faults < MaxFaults
    /\ faults' = faults + 1
    /\ Return(p, "general")
    /\ UNCHANGED <<users, userData>>
    /\ AppUnchanged

\* Registrations from two sessions, in any interleaving of their awaits.
NextReg ==
    \/ \E p \in Procs, e \in Emails, valid \in BOOLEAN : RegisterAction(p, e, valid)
    \/ \E p \in Procs : RegisterQuery(p)
    \/ \E p \in Procs : RegisterAdd(p)
    \/ \E p \in Procs : RegisterFails(p)

\* The stores of Init with users only.
InitReg == Init /\ flats = {}

RegSpec == InitReg /\ [][NextReg]_vars

\* ---------------------------------------------------------------- editFlatAction

\* editFlatAction is called for the flat of the route with a submitted form:
\* its listing fields (form), the file name of an image if one was chosen
\* (image, 0 if none) and whether the fields pass the validation.  Line 186
\* sends the getDoc of the flat.
EditFlatAction(p, f, form, image, valid) ==
    /\ route[p].at = "none"
    /\ route' = [route EXCEPT ![p] =
                   [NoRoute EXCEPT !.at = "editGet", !.flatID = f, !.form = form,
                                   !.image = image, !.valid = valid]]
    /\ UNCHANGED <<users, userData, faults>>
    /\ AppUnchanged

\* Lines 186-272: the getDoc resolves.  A missing flat makes the action throw
\* (line 188); validation errors are returned (line 272); otherwise
\* updateDoc is called (line 294).
EditGet(p) ==
    /\ route[p].at = "editGet"
    /\ IF route[p].flatID \notin FlatIdsOf(flats)
       THEN Return(p, "thrown")
       ELSE IF ~route[p].valid
       THEN Return(p, "errors")
       ELSE route' = [route EXCEPT ![p].at = "editUpdate"]
    /\ UNCHANGED <<users, userData, faults>>
    /\ AppUnchanged

\* The fields of a flat document after updateDoc with the form of session p:
\* the listing fields are replaced, the image only if the form has one.
Updated(p, data) ==
    [data EXCEPT !.listing = route[p].form,
                 !.image = IF route[p].image # 0 THEN route[p].image ELSE @]

\* What editFlatAction leaves alone in every step.
EditUnchanged ==
    UNCHANGED <<users, flats, messages, userData, localUsers, pc, userId,
                flatsSnap, flatsLeft, pending, stragglers, calls, start, fault,
                log, runs, faults, store0, created, newFlats>>

\* The variant that writes the flat with setDoc: the document is replaced by
\* the form's fields (createdAt is set anew) and is created if it is missing.
EditUpdateSetDoc(p) ==
    /\ route[p].at = "editUpdate"
    /\ flatData' = [flatData EXCEPT ![route[p].flatID] =
                       [listing |-> route[p].form, image |-> route[p].image,
                        createdAt |-> Now]]
    /\ Return(p, "success")
    /\ EditUnchanged

\* Lines 294-295: updateDoc resolves: the fields of the form are written to
\* the flat of the route and success is returned.  updateDoc of a document
\* that is no longer stored rejects, and the catch block returns the general
\* error (lines 296-299).
EditUpdate(p) ==
    /\ route[p].at = "editUpdate"
    /\ IF route[p].flatID \in FlatIdsOf(flats)
       THEN /\ flatData' = [flatData EXCEPT ![route[p].flatID] = Updated(p, @)]
            /\ Return(p, "success")
       ELSE /\ flatData' = flatData
            /\ Return(p, "general")
    /\ EditUnchanged

\* The getDoc fails and the action throws, or the updateDoc fails and the
\* catch block returns the general error.
EditFails(p) ==
    /\ route[p].at \in {"editGet", "editUpdate"}
    /\ faults < MaxFaults
    /\ faults' = faults + 1
    /\ Return(p, IF route[p].at = "editGet" THEN "thrown" ELSE "general")
    /\ UNCHANGED <<users, userData>>
    /\ AppUnchanged

\* A session edits flats while one call of handleRemoveUser with no store
\* error runs in another.
NextEdit ==
    \/ \E u \in UserIds : CallOnce(Admin, u)
    \/ \E d \in pending[Admin] : DeleteSettles(Admin, d)
    \/ GetSentMessages(Admin)
    \/ GetFlats(Admin)
    \/ GetFlatMessages(Admin)
    \/ DeleteFlats(Admin)
    \/ SetUsers(Admin)
    \/ \E f \in FlatIds, form \in FormValues, image \in {0} \cup FormValues,
          valid \in BOOLEAN : EditFlatAction(Other, f, form, image, valid)
    \/ EditGet(Other)
    \/ EditUpdate(Other)
    \/ EditFails(Other)

\* The stores of Init with no message and with flats of EditFlatIds only.
InitEdit == Init /\ messages = {} /\ FlatIdsOf(flats) \subseteq EditFlatIds

EditSpec == InitEdit /\ [][NextEdit]_vars

\* ---------------------------------------------------------------- claims

\* The flats a user owns in a store, and what a store holds once the user,
\* the user's flats, the messages the user sent and the messages on the
\* user's flats are removed from it.
OwnedIn(s, u) == {f \in s.flats : f.ownerID = u}

CascadeResult(s, u) ==
    [users |-> s.users \ {u},
     flats |-> s.flats \ OwnedIn(s, u),
     messages |-> {m \in s.messages :
                     m.senderId # u /\ m.flatID \notin FlatIdsOf(OwnedIn(s, u))}]

\* The store of the example of spec section 8.6.
ExampleStore ==
    [users |-> {"u1", "u2"},
     flats |-> {[id |-> "f1", ownerID |-> "u1"], [id |-> "f2", ownerID |-> "u1"],
                [id |-> "f3", ownerID |-> "u2"]},
     messages |-> {[id |-> "m1", senderId |-> "u1", flatID |-> "f3"],
                   [id |-> "m2", senderId |-> "u2", flatID |-> "f1"],
                   [id |-> "m3", senderId |-> "u1", flatID |-> "f1"]}]

\* The stage of a collection in the order messages -> flats -> user.
Stage(coll) == CASE coll = "messages" -> 0 [] coll = "flats" -> 1 [] OTHER -> 2

\* How many deleteDoc calls the current call of p has issued for a document.
CallCount(p, d) == Cardinality({i \in 1..Len(calls[p]) : d \in calls[p][i]})

LastCall == log[Len(log)]

\* C1: within one call of handleRemoveUser the deleteDoc calls are issued in
\* the stage order messages -> flats -> user: no call for a flat or for the
\* user document is issued before a call for a message, and none for the
\* user document before a call for a flat.
C1_StageOrder ==
    \A p \in Procs : \A i, j \in 1..Len(calls[p]) :
        i < j => \A d \in calls[p][i], e \in calls[p][j] :
                    Stage(d.coll) <= Stage(e.coll)

\* C2: when handleRemoveUser(userId) has reached the setUsers update and
\* nobody else writes, the store holds no user userId, no message sent by
\* userId, no flat owned by userId and no message on a flat userId owned when
\* the call started.
C2_NoOrphanAfterSuccess ==
    \A p \in Procs : pc[p] = "done" =>
        /\ userId[p] \notin users
        /\ MessagesBySender(userId[p]) = {}
        /\ FlatsByOwner(userId[p]) = {}
        /\ \A m \in messages :
              m.flatID \notin FlatIdsOf(OwnedIn(start[p], userId[p]))

\* C2 witness: a call succeeded for a user who existed, had sent a message on
\* somebody else's flat and owned a flat carrying somebody else's message.
C2_Witness ==
    \E p \in Procs :
        /\ pc[p] = "done"
        /\ userId[p] \in start[p].users
        /\ \E m \in start[p].messages :
              /\ m.senderId = userId[p]
              /\ m.flatID \notin FlatIdsOf(OwnedIn(start[p], userId[p]))
        /\ \E m \in start[p].messages :
              /\ m.senderId # userId[p]
              /\ m.flatID \in FlatIdsOf(OwnedIn(start[p], userId[p]))

\* C3: in every state during and after handleRemoveUser, aborted or not, no
\* message of the store names a sender or a flat that is not in the store
\* (the initial store is intact and nobody else writes).
C3_NoDanglingMessage ==
    \A m \in messages : m.senderId \in users /\ m.flatID \in FlatIdsOf(flats)

\* C4: in every state during and after handleRemoveUser every flat of the
\* store has an ownerID that names a user document of the store.
C4_FlatOwnerExists ==
    \A f \in flats : f.ownerID \in users

\* C5: when a call ends because one of its deleteDoc calls failed, the user
\* document (if there was one when the call started) is still in the store.
C5_FailedDeleteKeepsUser ==
    \A p \in Procs :
        (pc[p] = "failed" /\ fault[p] = "delete" /\ userId[p] \in start[p].users)
            => userId[p] \in users

\* Some call for user u reached the setUsers update.
Succeeded(u) ==
    \/ \E p \in Procs : pc[p] = "done" /\ userId[p] = u
    \/ \E i \in 1..Len(log) : log[i].uid = u /\ log[i].ok

\* C6: a user is missing from the users list of the page only if a call for
\* that user ran to the setUsers update with no failed query or deletion, and
\* then the store holds no document of that user, no message the user sent,
\* no flat the user owns and no message on a flat the user owned.
C6_ListDropsOnlyOnSuccess ==
    \A u \in store0.users \ localUsers :
        /\ Succeeded(u)
        /\ u \notin users
        /\ MessagesBySender(u) = {}
        /\ FlatsByOwner(u) = {}
        /\ \A m \in messages : m.flatID \notin FlatIdsOf(OwnedIn(store0, u))

\* C6 witness: a first call for a user who owned a flat and had sent a
\* message was aborted, the list kept the user, and the retry has dropped
\* the user from the list.
C6_Witness ==
    \E p \in Procs :
        /\ pc[p] = "done"
        /\ log # <<>>
        /\ ~LastCall.ok
        /\ userId[p] \in LastCall.start.users
        /\ userId[p] \in store0.users \ localUsers
        /\ OwnedIn(store0, userId[p]) # {}
        /\ \E m \in store0.messages : m.senderId = userId[p]

\* C7: a call with no store error removes exactly the user document, the
\* messages the user sent, the flats the user owned and the messages on those
\* flats: the store after it is the store before it without these.
C7_ExactDeletionSet ==
    \A p \in Procs :
        (pc[p] = "done" /\ faults = 0) => Store = CascadeResult(start[p], userId[p])

\* C7 witness: the example store, after handleRemoveUser("u1"): m1, m2, m3,
\* f1, f2 and u1 are gone, f3 and u2 are left.
C7_Witness ==
    /\ store0 = ExampleStore
    /\ runs = 1
    /\ pc[Admin] = "done"
    /\ userId[Admin] = "u1"
    /\ users = {"u2"}
    /\ flats = {[id |-> "f3", ownerID |-> "u2"]}
    /\ messages = {}

\* C8: with no store error, a call of handleRemoveUser never fails, and a
\* call for the user of the call that succeeded just before it leaves the
\* store as that call left it.
C8_SecondCallIsNoOp ==
    \A p \in Procs : faults = 0 =>
        /\ pc[p] # "failed"
        /\ (pc[p] = "done" /\ log # <<>> /\ LastCall.ok /\ LastCall.uid = userId[p])
              => Store = start[p]

\* C8 witness: the second of two successful calls for the same user has
\* returned; the first one had the whole example cascade to remove.
C8_Witness ==
    /\ pc[Admin] = "done"
    /\ faults = 0
    /\ Len(log) = 1
    /\ LastCall.ok
    /\ LastCall.uid = userId[Admin]
    /\ LastCall.start = ExampleStore
    /\ userId[Admin] = "u1"

\* C9: when a call for a user was aborted by a store error and the next call
\* for the same user succeeds, the store is the one a single successful call
\* from the store before the aborted call produces (no call for another user
\* was aborted in between).
C9_RetryCompletes ==
    \A p \in Procs :
        (/\ pc[p] = "done"
         /\ log # <<>>
         /\ ~LastCall.ok
         /\ \A i \in 1..Len(log) : log[i].ok \/ log[i].uid = userId[p])
            => Store = CascadeResult(LastCall.start, userId[p])

\* C9 witness: the retry succeeded after a call on the example store that was
\* aborted with the user document already deleted and dependents left.
C9_Witness ==
    /\ pc[Admin] = "done"
    /\ Len(log) = 1
    /\ ~LastCall.ok
    /\ LastCall.uid = userId[Admin]
    /\ LastCall.start = ExampleStore
    /\ userId[Admin] = "u1"
    /\ "u1" \notin start[Admin].users
    /\ OwnedIn(start[Admin], "u1") # {}
    /\ start[Admin].messages # {}

\* The messages of the store at the start of p's call that the user sent on
\* one of the user's own flats.
SentOnOwnFlat(p) ==
    {m \in start[p].messages :
        /\ m.senderId = userId[p]
        /\ m.flatID \in FlatIdsOf(OwnedIn(start[p], userId[p]))}

\* C10: a message the user sent on one of the user's own flats never has
\* more than one deleteDoc call issued for it in one call of handleRemoveUser,
\* and has exactly one when the call reaches the setUsers update (no earlier
\* call was aborted, so that no deleteDoc of an earlier call is in flight).
C10_DeletedOnce ==
    \A p \in Procs : \A m \in SentOnOwnFlat(p) :
        /\ CallCount(p, Doc("messages", m.id)) <= 1
        /\ (pc[p] = "done" /\ \A i \in 1..Len(log) : log[i].ok)
              => CallCount(p, Doc("messages", m.id)) = 1

\* C10 witness: a call that had such a message to delete succeeded.
C10_Witness ==
    \E p \in Procs : pc[p] = "done" /\ SentOnOwnFlat(p) # {}

\* The last batch of deleteDoc calls the current call of p has issued.
LastBatch(p) == calls[p][Len(calls[p])]

\* The current call of p ended because a deleteDoc of a message failed.
MessageDeleteFailed(p) ==
    /\ pc[p] = "failed"
    /\ fault[p] = "delete"
    /\ \E d \in LastBatch(p) : d.coll = "messages"

\* The messages of the store at the start of p's call that the cascade has to
\* delete: those the user sent and those on the user's flats.
MessagesToDelete(p) ==
    {m \in start[p].messages :
        \/ m.senderId = userId[p]
        \/ m.flatID \in FlatIdsOf(OwnedIn(start[p], userId[p]))}

\* C11: when a call ends because the deletion of a message failed, a
\* deleteDoc has been issued for every message the user sent and for every
\* message on a flat of the user.
C11_SiblingsStillAttempted ==
    \A p \in Procs : MessageDeleteFailed(p) =>
        \A m \in MessagesToDelete(p) : CallCount(p, Doc("messages", m.id)) >= 1

\* The current call of p has issued a deleteDoc for a flat.
FlatDeleteIssued(p) ==
    \E i \in 1..Len(calls[p]) : \E d \in calls[p][i] : d.coll = "flats"

\* C12: once a call has issued a deleteDoc for a flat, the loop over the
\* owned flats is over, every deleteDoc the call issued for a message has
\* settled with the message deleted, and no message of the store is on one of
\* the flats found; and a call that ended because a message deletion failed
\* has issued no deleteDoc for a flat.
C12_FlatsAfterTheirMessages ==
    \A p \in Procs :
        /\ FlatDeleteIssued(p) =>
              /\ flatsLeft[p] = {}
              /\ \A i \in 1..Len(calls[p]) : \A d \in calls[p][i] :
                    d.coll = "messages" =>
                        d \notin pending[p] /\ d.id \notin MsgIdsOf(messages)
              /\ \A m \in messages : m.flatID \notin FlatIdsOf(flatsSnap[p])
        /\ MessageDeleteFailed(p) => ~FlatDeleteIssued(p)

\* C12 witness: the deletes of two owned flats are in flight, after a message
\* that another user had sent on one of them was deleted.
C12_Witness ==
    \E p \in Procs :
        /\ pc[p] = "awaitFlatDeletes"
        /\ Cardinality(pending[p]) >= 2
        /\ \E m \in start[p].messages :
              m.senderId # userId[p] /\ m.flatID \in FlatIdsOf(flatsSnap[p])

\* C13: when a call ends because a getDocs failed, the call has issued no
\* deleteDoc and the store is as it was when the call started.
C13_QueryFailureDeletesNothing ==
    \A p \in Procs : (pc[p] = "failed" /\ fault[p] = "query") =>
        /\ \A i \in 1..Len(calls[p]) : calls[p][i] = {}
        /\ Store = start[p]

\* A call of p is under way: the handler is suspended at an await.
InCall(p) ==
    pc[p] \in {"awaitUserDelete", "awaitSentDeletes", "flatLoop", "awaitFlatDeletes"}

\* C14: the promise of a call never rejects (the call ends after setUsers or
\* after the catch block, which both return normally), and when every store
\* operation the call awaits settles, the call ends.
C14_AlwaysSettlesFulfilled ==
    /\ [](\A p \in Procs : pc[p] # "rejected")
    /\ \A p \in Procs : InCall(p) ~> Returned(p)

\* C14 witness: a call has ended in the catch block because a deleteDoc
\* failed while other deleteDoc calls of the batch were in flight.
C14_Witness ==
    \E p \in Procs :
        /\ pc[p] = "failed"
        /\ fault[p] = "delete"
        /\ stragglers # {}

\* Every message of the store names a sender and a flat of the store, and
\* every flat an owner of the store.
NoOrphan ==
    /\ \A m \in messages : m.senderId \in users /\ m.flatID \in FlatIdsOf(flats)
    /\ \A f \in flats : f.ownerID \in users

\* Both overlapping calls have been made, and both have reached setUsers.
BothCalled == pc[Admin] # "idle" /\ pc[Other] # "idle"
BothDone == pc[Admin] = "done" /\ pc[Other] = "done"

\* C15: two overlapping calls for different users never get stuck or fail,
\* and when both have returned the store is the one the two calls leave when
\* run one after the other (in either order), with no orphaned message or
\* flat.
C15_DifferentUsersIndependent ==
    (BothCalled /\ userId[Admin] # userId[Other]) =>
        /\ \A p \in Procs : pc[p] # "failed" /\ (InCall(p) => ENABLED StepOk(p))
        /\ BothDone =>
              /\ Store = CascadeResult(CascadeResult(store0, userId[Admin]),
                                       userId[Other])
              /\ Store = CascadeResult(CascadeResult(store0, userId[Other]),
                                       userId[Admin])
              /\ NoOrphan

\* C15 witness: both calls have returned; they overlapped (the second one
\* started on a store the first had not finished with), and one user had
\* sent a message on a flat of the other.
C15_Witness ==
    /\ BothDone
    /\ userId[Admin] # userId[Other]
    /\ \E p, q \in Procs :
          /\ start[q] # store0
          /\ start[q] # CascadeResult(store0, userId[p])
          /\ \E m \in store0.messages :
                /\ m.senderId = userId[p]
                /\ m.flatID \in FlatIdsOf(OwnedIn(store0, userId[q]))

\* C16: two overlapping calls for the same user never get stuck or fail (a
\* deleteDoc of a document the other call has deleted succeeds), and when
\* both have returned the store is the one a single call leaves.
C16_SameUserRaceHarmless ==
    (BothCalled /\ userId[Admin] = userId[Other]) =>
        /\ \A p \in Procs : pc[p] # "failed" /\ (InCall(p) => ENABLED StepOk(p))
        /\ BothDone => Store = CascadeResult(store0, userId[Admin])

\* C16 witness: both calls for the same user have returned; the second one
\* started while the first was under way, each issued a deleteDoc for the
\* same message, and another user's documents are left.
C16_Witness ==
    /\ BothDone
    /\ userId[Admin] = userId[Other]
    /\ start[Other] # store0
    /\ start[Other] # CascadeResult(store0, userId[Admin])
    /\ \E m \in store0.messages :
          /\ CallCount(Admin, Doc("messages", m.id)) >= 1
          /\ CallCount(Other, Doc("messages", m.id)) >= 1
    /\ flats # {}

\* Nothing in the store p's call started from belongs to the user: no user
\* document, no message the user sent, no flat the user owns (and so no
\* message on one).
NothingToRemove(p) ==
    /\ userId[p] \notin start[p].users
    /\ \A m \in start[p].messages : m.senderId # userId[p]
    /\ OwnedIn(start[p], userId[p]) = {}

\* C17: a call for a user id that nothing in the store belongs to does not
\* fail and can always take its next step unless a store operation fails,
\* issues no deleteDoc but the one for the user document, and leaves the
\* store as it was.
C17_UnknownUserIsNoOp ==
    \A p \in Procs : (pc[p] # "idle" /\ NothingToRemove(p) /\ faults = 0) =>
        /\ pc[p] # "failed"
        /\ InCall(p) => ENABLED StepOk(p)
        /\ \A i \in 2..Len(calls[p]) : calls[p][i] = {}
        /\ Store = start[p]

\* C17 witness: the first call, for a user id that never was in the store,
\* has reached setUsers, and the store holds another user's documents.
C17_Witness ==
    /\ pc[Admin] = "done"
    /\ runs = 1
    /\ userId[Admin] \notin store0.users
    /\ NothingToRemove(Admin)
    /\ flats # {}
    /\ messages # {}

\* C18: when a call produces its outcome (setUsers or the failure alert), no
\* deleteDoc it issued is still in flight, and a failure outcome is produced
\* only after every deletion of the failing batch has settled.
C18_OutcomeAfterAllSettled ==
    \A p \in Procs : Returned(p) =>
        \A i \in 1..Len(calls[p]) : calls[p][i] \cap stragglers = {}

\* C19: a call issues no deleteDoc before its dependency queries are all
\* complete (sent messages, owned flats, messages of every owned flat).
QueriesComplete(p) ==
    \/ pc[p] \in {"awaitFlatDeletes", "done"}
    \/ pc[p] = "flatLoop" /\ flatsLeft[p] = {}

C19_QueriesBeforeDeletes ==
    \A p \in Procs :
        (InCall(p) /\ \E i \in 1..Len(calls[p]) : calls[p][i] # {}) =>
            QueriesComplete(p)

\* A message that refers to a missing user or a missing flat.
Orphan(m) == m.senderId \notin users \/ m.flatID \notin FlatIdsOf(flats)

\* C20: a message another client created during the call, after the queries
\* of the call that match it, has no deleteDoc issued for it and stays in the
\* store; once the call has reported success (setUsers) it is an orphan.
C20_LateMessageSurvives ==
    \A c \in created : c.late =>
        /\ CallCount(Admin, Doc("messages", c.id)) = 0
        /\ c.id \in MsgIdsOf(messages)
        /\ pc[Admin] = "done" =>
              /\ userId[Admin] \notin localUsers
              /\ \A m \in messages : m.id = c.id => Orphan(m)

\* C20 witness: the call reported success and a message created after its
\* matching query is in the store, on a flat the removed user owned.
C20_Witness ==
    /\ pc[Admin] = "done"
    /\ \E c \in created : \E m \in messages :
          /\ c.late
          /\ m.id = c.id
          /\ m.senderId # userId[Admin]
          /\ m.flatID \in FlatIdsOf(OwnedFlatsAt(Admin))

\* The deleteDoc calls of p's call that have settled.
Settled(p) == (UNION {calls[p][i] : i \in 1..Len(calls[p])}) \ pending[p]

\* The store s without the documents of ds.
Without(s, ds) ==
    [users |-> {u \in s.users : Doc("users", u) \notin ds},
     flats |-> {f \in s.flats : Doc("flats", f.id) \notin ds},
     messages |-> {m \in s.messages : Doc("messages", m.id) \notin ds}]

FirstRunNoError(p) == pc[p] # "idle" /\ runs = 1 /\ faults = 0

\* C21: in a call with no store error the deletions of the awaited batch can
\* complete in any order, the store depends only on which deletions have
\* completed and not on their order, and the store after setUsers is the
\* same whatever the order was.
C21_BatchOrderIrrelevant ==
    \A p \in Procs : FirstRunNoError(p) =>
        /\ \A d \in pending[p] : ENABLED DeleteSettles(p, d)
        /\ Store = Without(start[p], Settled(p))
        /\ pc[p] = "done" => Store = CascadeResult(store0, userId[p])

\* C21 witness: a call with no store error has reached setUsers after a
\* batch of two message deletions and a batch of two flat deletions.
C21_Witness ==
    /\ FirstRunNoError(Admin)
    /\ pc[Admin] = "done"
    /\ \E i, j \in 1..Len(calls[Admin]) :
          /\ Cardinality({d \in calls[Admin][i] : d.coll = "messages"}) >= 2
          /\ Cardinality({d \in calls[Admin][j] : d.coll = "flats"}) >= 2

\* The documents of the store s that a removal of user u must leave alone.
Bystanders(s, u) ==
    [users |-> s.users \ {u},
     flats |-> s.flats \ OwnedIn(s, u),
     messages |-> {m \in s.messages :
                     m.senderId # u /\ m.flatID \notin FlatIdsOf(OwnedIn(s, u))}]

\* C22: whatever the calls of handleRemoveUser for a user do (succeed, fail,
\* leave deletions in flight, run again), every document of the store is a
\* document the store started with, unmodified, and every user, flat and
\* message outside the deletion set of that user is still there.
C22_OnlyDeletionSetRemoved ==
    \A p \in Procs : pc[p] # "idle" =>
        /\ users \subseteq store0.users
        /\ flats \subseteq store0.flats
        /\ messages \subseteq store0.messages
        /\ Bystanders(store0, userId[p]).users \subseteq users
        /\ Bystanders(store0, userId[p]).flats \subseteq flats
        /\ Bystanders(store0, userId[p]).messages \subseteq messages

\* C22 witness: a call failed after it had deleted documents, and the store
\* holds another user, a flat of that user and a message on it.
C22_Witness ==
    /\ pc[Admin] = "failed"
    /\ Store # store0
    /\ Bystanders(store0, userId[Admin]).users # {}
    /\ Bystanders(store0, userId[Admin]).flats # {}
    /\ Bystanders(store0, userId[Admin]).messages # {}
    /\ OwnedIn(store0, userId[Admin]) # {}

\* C23: no step of handleRemoveUser changes the favoriteFlats field of a user
\* whose document is still stored after the step; only a user marking a
\* favorite changes the field.
C23_FavoritesUntouched ==
    [][\/ \E u \in UserIds, f \in FlatIds : AddFavorite(u, f)
       \/ \A u \in users' : userData'[u].favoriteFlats = userData[u].favoriteFlats]_vars

\* C23 witness: the removal reported success and the favoriteFlats field of a
\* remaining user holds the id of a flat the removal deleted.
C23_Witness ==
    /\ pc[Admin] = "done"
    /\ userId[Admin] \notin localUsers
    /\ \E u \in users : \E f \in userData[u].favoriteFlats :
          /\ f \in FlatIdsOf(OwnedIn(store0, userId[Admin]))
          /\ f \notin FlatIdsOf(flats)

\* C24: newFlatAction adds a flat for the user of the session whether or not
\* that user's document is stored; a flat added for the user a call removes,
\* after the flats query of the call, gets no deleteDoc and stays stored with
\* that ownerID, and once the call has reported success its owner is a
\* deleted user.
C24_LateFlatSurvives ==
    /\ \A s \in store0.users :
          (Cardinality(newFlats) < MaxNewFlats /\ FreshFlatIds # {}) =>
              \A form \in FormValues : ENABLED NewFlatAction(Other, s, form, TRUE)
    /\ \A c \in newFlats : c.late =>
          /\ CallCount(Admin, Doc("flats", c.id)) = 0
          /\ [id |-> c.id, ownerID |-> userId[Admin]] \in flats
          /\ pc[Admin] = "done" =>
                /\ userId[Admin] \notin users
                /\ userId[Admin] \notin localUsers

\* C24 witness: the removal of a user reported success and the store holds a
\* flat newFlatAction added for that user after the flats query.
C24_Witness ==
    /\ pc[Admin] = "done"
    /\ userId[Admin] \notin users
    /\ route[Other].out = "success"
    /\ \E c \in newFlats :
          /\ c.late
          /\ [id |-> c.id, ownerID |-> userId[Admin]] \in flats

\* C25: no two stored user documents have the same email.
C25_OneUserPerEmail ==
    \A u, v \in users : u # v => userData[u].email # userData[v].email

\* C26 (the steps that change a session's route state are the steps of
\* editFlatAction): a step of editFlatAction creates and deletes no document and leaves
\* every ownerID and createdAt as it was; a flat's fields change only in the
\* step that returns success for a valid form on that flat, and then only its
\* listing fields, and its image only if the form has one.
C26_EditOnlyListingFields ==
    [][route' # route =>
         /\ users' = users /\ userData' = userData
         /\ flats' = flats /\ messages' = messages
         /\ \A f \in FlatIds :
               /\ flatData'[f].createdAt = flatData[f].createdAt
               /\ flatData'[f] # flatData[f] =>
                     \E p \in Procs :
                        /\ route[p].at = "editUpdate"
                        /\ route[p].flatID = f
                        /\ route[p].valid
                        /\ route'[p].out = "success"
                        /\ f \in FlatIdsOf(flats)
                        /\ route[p].image = 0 => flatData'[f].image = flatData[f].image
      ]_vars

\* C26 witness: an edit returned success, and a stored flat has new listing
\* fields with the image and createdAt it had.
C26_Witness ==
    /\ route[Other].out = "success"
    /\ \E f \in FlatIdsOf(flats) :
          /\ flatData[f].listing \in FormValues
          /\ flatData[f].image = 1
          /\ flatData[f].createdAt = 1

====
